---- MODULE Spec2Model ----
(***************************************************************************)
(* csv-to-json: convert_dynamic reads a CSV file with csv::Reader (default *)
(* settings), builds one HashMap<String,String> per record, optionally     *)
(* computes CsvStats, renders the table with serde_json::to_string_pretty  *)
(* and writes it to a file or prints it.                                   *)
(*                                                                         *)
(* Text is modelled as sequences of one-character strings; a character a   *)
(* TLA+ string cannot hold is named by its code point ("U+000B").          *)
(***************************************************************************)
EXTENDS Integers, Sequences, FiniteSets, TLC

\* ------------------------------------------------------------------ bounds
MaxLen == 5          \* longest input file, in characters (Spec)
MaxLenTwice == 5     \* longest input file when the conversion is run twice
MaxStatRows == 2     \* most rows of a table handed to calculate_stats alone
MaxStdout == 2       \* most println! calls a limited stdout takes (Spec)
MaxStdoutTwice == 5  \* the same when the conversion is run twice

\* ------------------------------------------------------------ the alphabet
LF == "\n"
CR == "\r"
DELIM == ","
QUOTE == "\""
SP == " "
TAB == "\t"
FF == "\f"
BSL == "\\"

\* The characters of an input file: the three the csv reader treats specially
\* and one it copies into the field.
Alphabet == {"a", DELIM, LF, QUOTE}

RECURSIVE SeqsUpTo(_, _)
SeqsUpTo(S, n) ==
  IF n = 0 THEN {<<>>}
  ELSE LET shorter == SeqsUpTo(S, n - 1)
       IN  shorter \cup {Append(s, c) : s \in {t \in shorter : Len(t) = n - 1}, c \in S}

None == [kind |-> "None"]

\* ------------------------------------------------- csv::Reader (defaults)
\* csv-core with the default builder: delimiter ',', quote '"', doubled
\* quotes, no escape, no comments, terminator "any of \r, \n, \r\n".
IsTerm(c) == c = LF \/ c = CR

\* One record starting at position i of s.  st is the csv-core state,
\* fields the fields completed so far, cur the field being read, start the
\* position of the first character of the record (0 while blank lines are
\* still being skipped).  A terminator ends the record; the terminators that
\* follow it are discarded by StartRecord on the next call, which is what the
\* CRLF state does for the \n of a \r\n pair.
RECURSIVE Dfa(_, _, _, _, _, _)
Dfa(s, st, i, fields, cur, start) ==
  IF i > Len(s)
  THEN IF st = "StartRecord"
       THEN [kind |-> "End", fields |-> <<>>, next |-> i, start |-> i, last |-> i]
       ELSE [kind |-> "Record", fields |-> Append(fields, cur), next |-> i,
             start |-> start, last |-> Len(s)]
  ELSE LET c == s[i]
           endField == Dfa(s, "StartField", i + 1, Append(fields, cur), <<>>, start)
           endRecord == [kind |-> "Record", fields |-> Append(fields, cur),
                         next |-> i + 1, start |-> start, last |-> i]
           copyTo(st2) == Dfa(s, st2, i + 1, fields, Append(cur, c), start)
       IN  CASE st = "StartRecord" ->
                  IF IsTerm(c) THEN Dfa(s, "StartRecord", i + 1, fields, cur, start)
                  ELSE Dfa(s, "StartField", i, fields, cur, i)
             [] st = "StartField" ->
                  IF c = QUOTE THEN Dfa(s, "InQuotedField", i + 1, fields, cur, start)
                  ELSE IF c = DELIM THEN endField
                  ELSE IF IsTerm(c) THEN endRecord
                  ELSE copyTo("InField")
             [] st = "InField" ->
                  IF c = DELIM THEN endField
                  ELSE IF IsTerm(c) THEN endRecord
                  ELSE copyTo("InField")
             [] st = "InQuotedField" ->
                  IF c = QUOTE THEN Dfa(s, "InDoubleEscapedQuote", i + 1, fields, cur, start)
                  ELSE copyTo("InQuotedField")
             [] st = "InDoubleEscapedQuote" ->
                  IF c = QUOTE THEN copyTo("InQuotedField")
                  ELSE IF c = DELIM THEN endField
                  ELSE IF IsTerm(c) THEN endRecord
                  ELSE copyTo("InField")

\* Reader::read_record: the next record of s at or after position pos.
ReadRecord(s, pos) == Dfa(s, "StartRecord", pos, <<>>, <<>>, 0)

\* ReaderState::add_record with flexible = false: the first record read
\* (the header) fixes the field count; any other count is UnequalLengths.
AddRecordOk(first_field_count, fields) ==
  first_field_count = None \/ first_field_count.n = Len(fields)

\* ---------------------------------------------------------- HashMap insert
Insert(map, k, v) ==
  [x \in (DOMAIN map) \cup {k} |-> IF x = k THEN v ELSE map[x]]

EmptyMap == [x \in {} |-> <<>>]

\* The inner loop of convert_dynamic: for (i, field) in record.iter()
\* .enumerate() { if let Some(header) = headers.get(i) { insert } }.
RECURSIVE BuildRow(_, _, _, _)
BuildRow(hdrs, record, i, row_map) ==
  IF i > Len(record) THEN row_map
  ELSE IF i <= Len(hdrs)
       THEN BuildRow(hdrs, record, i + 1, Insert(row_map, hdrs[i], record[i]))
       ELSE BuildRow(hdrs, record, i + 1, row_map)

\* ------------------------------------------------------------- str::trim
\* char::is_whitespace: the characters with the Unicode White_Space property.
White_Space ==
  {TAB, LF, "U+000B", FF, CR, SP, "U+0085", "U+00A0", "U+1680",
   "U+2000", "U+2001", "U+2002", "U+2003", "U+2004", "U+2005", "U+2006",
   "U+2007", "U+2008", "U+2009", "U+200A", "U+2028", "U+2029", "U+202F",
   "U+205F", "U+3000"}

IsWhite(c) == c \in White_Space

RECURSIVE TrimStart(_)
TrimStart(v) ==
  IF v # <<>> /\ IsWhite(Head(v)) THEN TrimStart(Tail(v)) ELSE v

RECURSIVE TrimEnd(_)
TrimEnd(v) ==
  IF v # <<>> /\ IsWhite(v[Len(v)]) THEN TrimEnd(SubSeq(v, 1, Len(v) - 1)) ELSE v

Trim(v) == TrimEnd(TrimStart(v))

\* ------------------------------------------------------- calculate_stats
\* The headers loop: one empty HashSet per header name.
RECURSIVE InitUnique(_, _, _)
InitUnique(hdrs, i, column_unique_values) ==
  IF i > Len(hdrs) THEN column_unique_values
  ELSE InitUnique(hdrs, i + 1, Insert(column_unique_values, hdrs[i], {}))

\* VisitCell with `value.is_empty()` in place of `value.trim().is_empty()`.
VisitCellNoTrim(acc, column, value) ==
  [empty_cells |->
     IF value = <<>> THEN acc.empty_cells + 1 ELSE acc.empty_cells,
   column_unique_values |->
     IF column \in DOMAIN acc.column_unique_values
     THEN [acc.column_unique_values EXCEPT ![column] = @ \cup {value}]
     ELSE acc.column_unique_values]

\* VisitCell with one HashSet shared by all the columns.
VisitCellAllColumns(acc, column, value) ==
  [empty_cells |->
     IF Trim(value) = <<>> THEN acc.empty_cells + 1 ELSE acc.empty_cells,
   column_unique_values |->
     IF column \in DOMAIN acc.column_unique_values
     THEN [c \in DOMAIN acc.column_unique_values |->
             acc.column_unique_values[c] \cup {value}]
     ELSE acc.column_unique_values]

\* VisitCell inserting the trimmed value into the column's set.
VisitCellTrimmed(acc, column, value) ==
  [empty_cells |->
     IF Trim(value) = <<>> THEN acc.empty_cells + 1 ELSE acc.empty_cells,
   column_unique_values |->
     IF column \in DOMAIN acc.column_unique_values
     THEN [acc.column_unique_values EXCEPT ![column] = @ \cup {Trim(value)}]
     ELSE acc.column_unique_values]

\* One (column, value) entry of a row: the body of the inner for loop.
\* acc = [empty_cells, column_unique_values].
VisitCell(acc, column, value) ==
  [empty_cells |->
     IF Trim(value) = <<>> THEN acc.empty_cells + 1 ELSE acc.empty_cells,
   column_unique_values |->
     IF column \in DOMAIN acc.column_unique_values
     THEN [acc.column_unique_values EXCEPT ![column] = @ \cup {value}]
     ELSE acc.column_unique_values]

\* for (column, value) in row: the entries of one HashMap, in any order
\* (the fold does not depend on it; CHOOSE fixes one).
RECURSIVE VisitRow(_, _, _)
VisitRow(acc, row, todo) ==
  IF todo = {} THEN acc
  ELSE LET column == CHOOSE k \in todo : TRUE
       IN  VisitRow(VisitCell(acc, column, row[column]), row, todo \ {column})

\* for row in data
RECURSIVE VisitRows(_, _, _)
VisitRows(acc, data, i) ==
  IF i > Len(data) THEN acc
  ELSE VisitRows(VisitRow(acc, data[i], DOMAIN data[i]), data, i + 1)

\* calculate_stats with total_columns taken from column_unique_values.len().
calculate_stats_map_len(data, hdrs) ==
  LET unique == InitUnique(hdrs, 1, EmptyMap)
  IN  [kind |-> "CsvStats",
       total_rows |-> Len(data),
       total_columns |-> Cardinality(DOMAIN unique),
       empty_cells |-> VisitRows([empty_cells |-> 0, column_unique_values |-> unique],
                                 data, 1).empty_cells,
       column_unique_counts |->
         [column \in DOMAIN unique |->
            Cardinality(VisitRows([empty_cells |-> 0, column_unique_values |-> unique],
                                  data, 1).column_unique_values[column])]]

calculate_stats(data, hdrs) ==
  LET scanned == VisitRows([empty_cells |-> 0,
                            column_unique_values |-> InitUnique(hdrs, 1, EmptyMap)],
                           data, 1)
  IN  [kind |-> "CsvStats",
       total_rows |-> Len(data),
       total_columns |-> Len(hdrs),
       empty_cells |-> scanned.empty_cells,
       column_unique_counts |->
         [column \in DOMAIN scanned.column_unique_values |->
            Cardinality(scanned.column_unique_values[column])]]

\* ------------------------------------------- serde_json::to_string_pretty
\* The control characters serde_json writes as \u00XX (all below U+0020 but
\* the five with a short escape), each with its two last hex digits.
ControlHex ==
  "U+0000" :> <<"0", "0">> @@ "U+0001" :> <<"0", "1">> @@ "U+0002" :> <<"0", "2">>
  @@ "U+0003" :> <<"0", "3">> @@ "U+0004" :> <<"0", "4">> @@ "U+0005" :> <<"0", "5">>
  @@ "U+0006" :> <<"0", "6">> @@ "U+0007" :> <<"0", "7">> @@ "U+000B" :> <<"0", "b">>
  @@ "U+000E" :> <<"0", "e">> @@ "U+000F" :> <<"0", "f">> @@ "U+0010" :> <<"1", "0">>
  @@ "U+0011" :> <<"1", "1">> @@ "U+0012" :> <<"1", "2">> @@ "U+0013" :> <<"1", "3">>
  @@ "U+0014" :> <<"1", "4">> @@ "U+0015" :> <<"1", "5">> @@ "U+0016" :> <<"1", "6">>
  @@ "U+0017" :> <<"1", "7">> @@ "U+0018" :> <<"1", "8">> @@ "U+0019" :> <<"1", "9">>
  @@ "U+001A" :> <<"1", "a">> @@ "U+001B" :> <<"1", "b">> @@ "U+001C" :> <<"1", "c">>
  @@ "U+001D" :> <<"1", "d">> @@ "U+001E" :> <<"1", "e">> @@ "U+001F" :> <<"1", "f">>

\* A JSON string literal: the quote, the backslash and every control
\* character are escaped.
RECURSIVE EscapeChars(_)
EscapeChars(v) ==
  IF v = <<>> THEN <<>>
  ELSE LET c == Head(v)
           e == CASE c = QUOTE -> <<BSL, QUOTE>>
                  [] c = BSL -> <<BSL, BSL>>
                  [] c = "U+0008" -> <<BSL, "b">>
                  [] c = TAB -> <<BSL, "t">>
                  [] c = LF -> <<BSL, "n">>
                  [] c = FF -> <<BSL, "f">>
                  [] c = CR -> <<BSL, "r">>
                  [] c \in DOMAIN ControlHex -> <<BSL, "u", "0", "0">> \o ControlHex[c]
                  [] OTHER -> <<c>>
       IN  e \o EscapeChars(Tail(v))

JsonString(v) == <<QUOTE>> \o EscapeChars(v) \o <<QUOTE>>

\* The entries of one object, in the order `order` lists its keys, at the
\* pretty printer's second indentation level.
RECURSIVE JsonEntries(_, _, _)
JsonEntries(row, order, i) ==
  IF i > Len(order) THEN <<>>
  ELSE <<LF, SP, SP, SP, SP>> \o JsonString(order[i]) \o <<":", SP>>
       \o JsonString(row[order[i]])
       \o (IF i < Len(order) THEN <<",">> ELSE <<>>)
       \o JsonEntries(row, order, i + 1)

JsonObject(row, order) ==
  IF DOMAIN row = {} THEN <<"{", "}">>
  ELSE <<"{">> \o JsonEntries(row, order, 1) \o <<LF, SP, SP, "}">>

RECURSIVE JsonElements(_, _, _)
JsonElements(rows, orders, i) ==
  IF i > Len(rows) THEN <<>>
  ELSE <<LF, SP, SP>> \o JsonObject(rows[i], orders[i])
       \o (IF i < Len(rows) THEN <<",">> ELSE <<>>)
       \o JsonElements(rows, orders, i + 1)

\* to_string_pretty(&all_rows) when row i's HashMap iterates in orders[i].
to_string_pretty(rows, orders) ==
  IF rows = <<>> THEN <<"[", "]">>
  ELSE <<"[">> \o JsonElements(rows, orders, 1) \o <<LF, "]">>

\* The iteration orders a HashMap with these keys can have: std's HashMap
\* seeds its hasher randomly per map, so every order of the keys can occur.
KeyOrders(keys) ==
  {o \in [1..Cardinality(keys) -> keys] : \A k \in keys : \E i \in DOMAIN o : o[i] = k}

IterationOrders(rows) ==
  {os \in [DOMAIN rows -> UNION {KeyOrders(DOMAIN rows[i]) : i \in DOMAIN rows}] :
     \A i \in DOMAIN rows : os[i] \in KeyOrders(DOMAIN rows[i])}

\* ================================================================== state
VARIABLES
  input_file,         \* what input_path names: a file with content, or not
  output_path,        \* Option<&str>
  out_writable,       \* what std::fs::write(path, ..) will do: "yes", "no", "partial"
  stdout_limit,       \* how many println! calls stdout takes in a run, or None (any)
  stderr_writable,    \* whether stderr takes what eprintln! writes
  show_stats,         \* the --stats flag
  pc,                 \* position in main / convert_dynamic
  pos,                \* the reader's position in the input (1-based)
  headers,            \* the header record
  first_field_count,  \* the reader's expected field count
  line_num,           \* the enumerate() counter of the records loop
  all_rows,           \* Vec<HashMap<String, String>>
  stats,              \* the CsvStats computed, or None
  json_output,        \* the rendered document, or None
  out_before,         \* content of the file at the output path when the run began
  out_file,           \* content of the file at the output path, or None
  stdout_left,        \* how many more println! calls stdout takes, or None (any)
  stdout_json,        \* what println!("{}", json_output) put on stdout, or None
  result,             \* what convert_dynamic returned, or None while running
  exit_code,          \* the exit status of the process, or None while running
  run,                \* which run of the tool this is
  first               \* the outcome of the first run, once a second has begun

vars == <<input_file, output_path, out_writable, stdout_limit, stderr_writable,
          out_before,
          show_stats, pc, pos, headers, first_field_count, line_num, all_rows,
          stats, json_output, out_file, stdout_left, stdout_json, result,
          exit_code, run, first>>

env == <<input_file, output_path, out_writable, stdout_limit, stderr_writable,
         out_before>>
reader == <<pos, headers, first_field_count, line_num, all_rows>>

InputPath == "in.csv"
OutPath == "out.json"
OldContent == <<"o", "l", "d">>

Some(v) == [kind |-> "Some", v |-> v]
Ok == [kind |-> "Ok"]
FileNotFound(path) == [kind |-> "FileNotFound", path |-> path]
FileReadError(path) == [kind |-> "FileReadError", path |-> path]
CsvParseError == [kind |-> "CsvParseError"]
CsvRecordError(line) == [kind |-> "CsvRecordError", line |-> line]
FileWriteError(path) == [kind |-> "FileWriteError", path |-> path]
\* A println! that cannot write to stdout panics: convert_dynamic returns
\* nothing and the process ends with status 101.
Panicked == [kind |-> "Panic"]

\* What the input path can name: a regular file, nothing, a file the user
\* may not open, or a directory (open succeeds, the first read fails).
InputFiles(n) ==
  {[kind |-> "file", content |-> c] : c \in SeqsUpTo(Alphabet, n)}
  \cup {[kind |-> "missing"], [kind |-> "noperm"], [kind |-> "dir"]}

\* The output side: no path; a path that can be written, with or without
\* an older file there; a path where the file cannot be created; a path
\* where the file is created (truncated) and the write then fails.
OutputEnvsTwice ==
  { [path |-> None, writable |-> "no", file |-> None],
    [path |-> Some(OutPath), writable |-> "yes", file |-> None],
    [path |-> Some(OutPath), writable |-> "yes", file |-> Some(OldContent)],
    [path |-> Some(OutPath), writable |-> "no", file |-> Some(OldContent)] }

OutputEnvs ==
  OutputEnvsTwice
  \cup {[path |-> Some(OutPath), writable |-> "partial", file |-> Some(OldContent)]}

\* stdout: it takes every println!, or it takes the first n of a run and
\* fails from then on (a closed pipe, a full disk, a file size limit).
StdoutLimits(n) == {None} \cup {Some(k) : k \in 0..n}

Start ==
  /\ pc = "main"
  /\ pos = 1
  /\ headers = <<>>
  /\ first_field_count = None
  /\ line_num = 0
  /\ all_rows = <<>>
  /\ stats = None
  /\ json_output = None
  /\ stdout_json = None
  /\ result = None
  /\ exit_code = None

InitWith(n, m, outs) ==
  /\ input_file \in InputFiles(n)
  /\ \E o \in outs :
       /\ output_path = o.path
       /\ out_writable = o.writable
       /\ out_before = o.file
       /\ out_file = o.file
  /\ stdout_limit \in StdoutLimits(m)
  /\ stderr_writable \in BOOLEAN
  /\ stdout_left = stdout_limit
  /\ show_stats \in BOOLEAN
  /\ Start
  /\ run = 1
  /\ first = None

Init == InitWith(MaxLen, MaxStdout, OutputEnvs)

\* ---------------------------------------------------------------- println!
\* k more println! calls all succeed.
CanPrint(k) == stdout_left = None \/ stdout_left.v >= k

Printed(k) == IF stdout_left = None THEN None ELSE Some(stdout_left.v - k)

\* One of the println! calls of the step fails.
Panic ==
  /\ stdout_left' = Some(0)
  /\ result' = Panicked
  /\ exit_code' = 101
  /\ pc' = "exited"

\* The println! calls of the step (k of them) and then on to `next`.
PrintThen(k, next) ==
  IF CanPrint(k)
  THEN /\ stdout_left' = Printed(k)
       /\ pc' = next
       /\ UNCHANGED <<result, exit_code>>
  ELSE Panic

Min(a, b) == IF a <= b THEN a ELSE b

\* ------------------------------------------------------------------- main
\* The two println! of main before convert_dynamic is called.
MainStart ==
  /\ pc = "main"
  /\ PrintThen(2, "open")
  /\ UNCHANGED <<env, show_stats, reader, stats, json_output, out_file,
                 stdout_json, run, first>>

\* ------------------------------------------------------- convert_dynamic
\* return Err(e)
Fail(e) ==
  /\ result' = e
  /\ pc' = "done"

\* OpenOk creating the output file before anything is read.
OpenOkCreateFirst ==
  /\ pc = "open"
  /\ input_file.kind \in {"file", "dir"}
  /\ IF output_path # None /\ out_writable # "yes"
     THEN /\ result' = FileWriteError(output_path.v)
          /\ pc' = "done"
     ELSE /\ pc' = "headers"
          /\ UNCHANGED result
  /\ UNCHANGED <<env, show_stats, reader, stats, json_output, out_file,
                 stdout_left, stdout_json, exit_code, run, first>>

\* File::open(input_path).map_err(..)?
OpenOk ==
  /\ pc = "open"
  /\ input_file.kind \in {"file", "dir"}
  /\ pc' = "headers"
  /\ UNCHANGED <<env, show_stats, reader, stats, json_output, out_file,
                 stdout_left, stdout_json, result, exit_code, run, first>>

OpenFail ==
  /\ pc = "open"
  /\ input_file.kind \in {"missing", "noperm"}
  /\ Fail(IF input_file.kind = "missing"
          THEN FileNotFound(InputPath) ELSE FileReadError(InputPath))
  /\ UNCHANGED <<env, show_stats, reader, stats, json_output, out_file,
                 stdout_left, stdout_json, exit_code, run, first>>

\* reader.headers().map_err(|_| CsvParseError)?.clone(), and the println!
\* of the headers.
HeadersOk ==
  /\ pc = "headers"
  /\ input_file.kind = "file"
  /\ LET r == ReadRecord(input_file.content, pos)
     IN  /\ headers' = r.fields
         /\ first_field_count' =
              IF r.kind = "Record" THEN [kind |-> "Some", n |-> Len(r.fields)]
              ELSE None
         /\ pos' = r.next
  /\ PrintThen(1, "records")
  /\ UNCHANGED <<env, show_stats, line_num, all_rows, stats, json_output,
                 out_file, stdout_json, run, first>>

HeadersFail ==
  /\ pc = "headers"
  /\ input_file.kind = "dir"
  /\ Fail(CsvParseError)
  /\ UNCHANGED <<env, show_stats, reader, stats, json_output, out_file,
                 stdout_left, stdout_json, exit_code, run, first>>

\* One turn of `for (line_num, result) in reader.records().enumerate()`
\* whose record is Ok: build row_map and push it.
RecordOk ==
  /\ pc = "records"
  /\ LET r == ReadRecord(input_file.content, pos)
     IN  /\ r.kind = "Record"
         /\ AddRecordOk(first_field_count, r.fields)
         /\ all_rows' = Append(all_rows, BuildRow(headers, r.fields, 1, EmptyMap))
         /\ pos' = r.next
  /\ line_num' = line_num + 1
  /\ UNCHANGED <<env, show_stats, pc, headers, first_field_count, stats,
                 json_output, out_file, stdout_left, stdout_json, result,
                 exit_code, run, first>>

\* RecordErr skipping the faulty record and going on with the next.
RecordErrSkip ==
  /\ pc = "records"
  /\ LET r == ReadRecord(input_file.content, pos)
     IN  /\ r.kind = "Record"
         /\ ~AddRecordOk(first_field_count, r.fields)
         /\ pos' = r.next
  /\ line_num' = line_num + 1
  /\ UNCHANGED <<env, show_stats, pc, headers, first_field_count, all_rows,
                 stats, json_output, out_file, stdout_left, stdout_json, result,
                 exit_code, run, first>>

\* ... whose record is Err: result.map_err(|_| CsvRecordError { line:
\* line_num + 2 })? returns from convert_dynamic.
RecordErr ==
  /\ pc = "records"
  /\ LET r == ReadRecord(input_file.content, pos)
     IN  /\ r.kind = "Record"
         /\ ~AddRecordOk(first_field_count, r.fields)
  /\ Fail(CsvRecordError(line_num + 2))
  /\ UNCHANGED <<env, show_stats, reader, stats, json_output, out_file,
                 stdout_left, stdout_json, exit_code, run, first>>

\* The iterator is exhausted: the loop ends, and the row count, the first
\* three rows and (beyond three rows) the count of the others are printed.
RecordsEnd ==
  /\ pc = "records"
  /\ ReadRecord(input_file.content, pos).kind = "End"
  /\ PrintThen(1 + Min(Len(all_rows), 3) + (IF Len(all_rows) > 3 THEN 1 ELSE 0),
               IF show_stats THEN "stats" ELSE "serialize")
  /\ UNCHANGED <<env, show_stats, reader, stats, json_output, out_file,
                 stdout_json, run, first>>

\* if show_stats { let stats = calculate_stats(&all_rows, &headers);
\* stats.display(); }: display prints seven lines and one per entry of
\* column_unique_counts.
ShowStats ==
  /\ pc = "stats"
  /\ stats' = calculate_stats(all_rows, headers)
  /\ PrintThen(7 + Cardinality(DOMAIN stats'.column_unique_counts), "serialize")
  /\ UNCHANGED <<env, show_stats, reader, json_output, out_file, stdout_json,
                 run, first>>

\* serde_json::to_string_pretty(&all_rows): never fails for a Vec of
\* HashMap<String, String>; each map is walked in its own iteration order.
Serialize ==
  /\ pc = "serialize"
  /\ \E orders \in IterationOrders(all_rows) :
       json_output' = Some(to_string_pretty(all_rows, orders))
  /\ pc' = "write"
  /\ UNCHANGED <<env, show_stats, reader, stats, out_file, stdout_left,
                 stdout_json, result, exit_code, run, first>>

\* Some(path) => std::fs::write(path, json_output) succeeds; then the
\* println! that names the file, then Ok(()).
WriteOk ==
  /\ pc = "write"
  /\ output_path # None
  /\ out_writable = "yes"
  /\ out_file' = json_output
  /\ IF CanPrint(1)
     THEN /\ stdout_left' = Printed(1)
          /\ result' = Ok
          /\ pc' = "done"
          /\ UNCHANGED exit_code
     ELSE Panic
  /\ UNCHANGED <<env, show_stats, reader, stats, json_output, stdout_json,
                 run, first>>

\* std::fs::write fails: creating the file fails and the file is as it
\* was, or the file is created (emptied) and writing stops short of the
\* whole document.
WriteFail ==
  /\ pc = "write"
  /\ output_path # None
  /\ out_writable # "yes"
  /\ IF out_writable = "no"
     THEN UNCHANGED out_file
     ELSE \E k \in 0..(Len(json_output.v) - 1) :
            out_file' = Some(SubSeq(json_output.v, 1, k))
  /\ Fail(FileWriteError(output_path.v))
  /\ UNCHANGED <<env, show_stats, reader, stats, json_output, stdout_left,
                 stdout_json, exit_code, run, first>>

\* None => println!("JSON出力："); println!("{}", json_output); then Ok(()).
\* The second println! writes the document and then a newline: when it
\* fails, any part of the document may be out, also the whole of it.
PrintJson ==
  /\ pc = "write"
  /\ output_path = None
  /\ IF CanPrint(2)
     THEN /\ stdout_json' = json_output
          /\ stdout_left' = Printed(2)
          /\ result' = Ok
          /\ pc' = "done"
          /\ UNCHANGED exit_code
     ELSE /\ IF CanPrint(1)
             THEN \E k \in 0..Len(json_output.v) :
                    stdout_json' = Some(SubSeq(json_output.v, 1, k))
             ELSE UNCHANGED stdout_json
          /\ Panic
  /\ UNCHANGED <<env, show_stats, reader, stats, json_output, out_file,
                 run, first>>

\* ------------------------------------------------------------------- main
\* convert_dynamic returned Ok: the two closing println! of main.
MainOk ==
  /\ pc = "done"
  /\ result = Ok
  /\ IF CanPrint(2)
     THEN /\ stdout_left' = Printed(2)
          /\ exit_code' = 0
     ELSE /\ stdout_left' = Some(0)
          /\ exit_code' = 101
  /\ pc' = "exited"
  /\ UNCHANGED <<env, show_stats, reader, stats, json_output, out_file,
                 stdout_json, result, run, first>>

\* convert_dynamic returned Err(e): eprintln!("\n{}", e) and exit(1).  An
\* eprintln! that cannot write to stderr panics before exit(1) is reached.
MainErr ==
  /\ pc = "done"
  /\ result # Ok
  /\ exit_code' = IF stderr_writable THEN 1 ELSE 101
  /\ pc' = "exited"
  /\ UNCHANGED <<env, show_stats, reader, stats, json_output, out_file,
                 stdout_left, stdout_json, result, run, first>>

Next ==
  \/ MainStart
  \/ OpenOk
  \/ OpenFail
  \/ HeadersOk
  \/ HeadersFail
  \/ RecordOk
  \/ RecordErr
  \/ RecordsEnd
  \/ ShowStats
  \/ Serialize
  \/ WriteOk
  \/ WriteFail
  \/ PrintJson
  \/ MainOk
  \/ MainErr

Spec == Init /\ [][Next]_vars

\* ------------------------------------------------ running the tool again
\* main() once more on the same input file, output path and stdout, with
\* either value of --stats; the output file is what the first run left.
Rerun ==
  /\ pc = "exited"
  /\ run = 1
  /\ first' = [result |-> result, headers |-> headers, all_rows |-> all_rows,
               show_stats |-> show_stats, out_file |-> out_file]
  /\ run' = 2
  /\ show_stats' \in BOOLEAN
  /\ pc' = "main"
  /\ pos' = 1
  /\ headers' = <<>>
  /\ first_field_count' = None
  /\ line_num' = 0
  /\ all_rows' = <<>>
  /\ stats' = None
  /\ json_output' = None
  /\ stdout_json' = None
  /\ result' = None
  /\ exit_code' = None
  /\ stdout_left' = stdout_limit
  /\ out_before' = out_file
  /\ UNCHANGED <<input_file, output_path, out_writable, stdout_limit,
                 stderr_writable, out_file>>

\* (without the output path whose write stops short: what it leaves in the
\* file does not bear on the second run's steps)
InitTwice == InitWith(MaxLenTwice, MaxStdoutTwice, OutputEnvsTwice)

NextTwice == Next \/ Rerun

SpecTwice == InitTwice /\ [][NextTwice]_vars

\* ------------------------------------------- calculate_stats on its own
\* calculate_stats is a pure function of (data, headers): here it is applied
\* to every small table, also ones convert_dynamic does not build (rows
\* lacking a header's key, rows with a key that is no header).
MaxStatCols == 2     \* most header names handed to calculate_stats alone

StatNames == {<<"a">>, <<"b">>}
StatValues == {<<>>, <<SP>>, <<TAB>>, <<"a">>}

StatRows ==
  UNION {[keys -> StatValues] : keys \in SUBSET StatNames}

InitStats ==
  /\ input_file = None
  /\ output_path = None
  /\ out_writable = "no"
  /\ stdout_limit = None
  /\ stderr_writable = TRUE
  /\ out_before = None
  /\ out_file = None
  /\ stdout_left = None
  /\ show_stats = TRUE
  /\ pc = "stats"
  /\ pos = 1
  /\ headers \in SeqsUpTo(StatNames, MaxStatCols)
  /\ first_field_count = None
  /\ all_rows \in SeqsUpTo(StatRows, MaxStatRows)
  /\ line_num = Len(all_rows)
  /\ stats = None
  /\ json_output = None
  /\ stdout_json = None
  /\ result = None
  /\ exit_code = None
  /\ run = 1
  /\ first = None

NextStats == ShowStats

SpecStats == InitStats /\ [][NextStats]_vars

\* ================================================================= claims
\* What the claims speak of, stated independently of the steps above.

\* Every record the reader finds in a text, field counts not compared.
RECURSIVE RawRecords(_, _)
RawRecords(content, p) ==
  LET r == ReadRecord(content, p)
  IN  IF r.kind = "End" THEN <<>> ELSE <<r.fields>> \o RawRecords(content, r.next)

\* The data records of the input file and its header record.
DataRecords ==
  IF RawRecords(input_file.content, 1) = <<>> THEN <<>>
  ELSE Tail(RawRecords(input_file.content, 1))
HeaderRecord ==
  IF RawRecords(input_file.content, 1) = <<>> THEN <<>>
  ELSE Head(RawRecords(input_file.content, 1))

\* Header names paired with fields by position, up to the shorter of the two;
\* of two columns with one name the later one's field stays.
ZipRow(hdrs, record) ==
  LET n == Min(Len(hdrs), Len(record))
  IN  [k \in {hdrs[j] : j \in 1..n} |->
         record[CHOOSE j \in 1..n :
                  hdrs[j] = k /\ \A j2 \in 1..n : hdrs[j2] = k => j2 <= j]]

\* The 1-based physical line position p of a text lies on.
LineOf(content, p) ==
  1 + Cardinality({q \in 1..Len(content) : q < p /\ content[q] = LF})

\* A value that is empty once trimmed: it holds white space only.
IsBlank(v) == \A j \in DOMAIN v : v[j] \in White_Space

HeaderNames == {headers[i] : i \in DOMAIN headers}

PastRecords == pc \in {"stats", "serialize", "write"} \/ result = Ok
                 \/ result.kind = "FileWriteError"

\* C1: every data line, whatever its field count, becomes a Row pairing
\* headers and fields by position up to the shorter of the two, and the
\* parse succeeds: once the run has ended or left the records loop on a
\* regular input file, no record error was returned and the table holds one
\* such Row per data record.
C1_EveryLineBecomesARow ==
  (input_file.kind = "file" /\ result # Panicked
     /\ (pc \in {"done", "exited"} \/ PastRecords)) =>
     /\ result.kind # "CsvRecordError"
     /\ Len(all_rows) = Len(DataRecords)
     /\ \A i \in DOMAIN all_rows : all_rows[i] = ZipRow(headers, DataRecords[i])

\* C2: the line carried by CsvRecordError is the physical line of the faulty
\* record: it lies between the line the record starts on and the line it
\* ends on.
C2_ErrorLineIsPhysicalLine ==
  result.kind = "CsvRecordError" =>
     LET r == ReadRecord(input_file.content, pos)
     IN  /\ LineOf(input_file.content, r.start) <= result.line
         /\ result.line <= LineOf(input_file.content, r.last)

\* C3: when two runs on the same input and output path both return Ok, the
\* document the second leaves in the output file is byte-identical to the
\* one the first left.
C3_SecondRunSameBytes ==
  (run = 2 /\ output_path # None /\ result = Ok /\ first.result = Ok) =>
     out_file = first.out_file

\* C4: a record error ends the run there, with no document rendered, printed
\* or written (the output file is as it was before the run); and the steps
\* after the records loop are reached only with every record of the input
\* read without error and in the table.
C4_RecordErrorStopsRun ==
  /\ result.kind = "CsvRecordError" =>
       /\ pc \in {"done", "exited"}
       /\ stats = None
       /\ json_output = None
       /\ stdout_json = None
       /\ out_file = out_before
  /\ PastRecords =>
       /\ Len(all_rows) = Len(DataRecords)
       /\ \A i \in DOMAIN all_rows : Len(DataRecords[i]) = Len(HeaderRecord)

C4_Witness ==
  /\ result.kind = "CsvRecordError"
  /\ Len(all_rows) >= 1
  /\ output_path # None
  /\ out_writable = "yes"

\* C5: empty_cells is the number of cells present in the rows' maps whose
\* value is blank; keys a row lacks are not counted, white-space-only values
\* are.
C5_EmptyCells ==
  stats # None =>
     stats.empty_cells =
       Cardinality({c \in UNION {{<<i, k>> : k \in DOMAIN all_rows[i]} :
                                   i \in DOMAIN all_rows} :
                      IsBlank(all_rows[c[1]][c[2]])})

C5_Witness ==
  /\ stats # None
  /\ \E i \in DOMAIN all_rows : \E h \in HeaderNames : h \notin DOMAIN all_rows[i]
  /\ \E i \in DOMAIN all_rows : \E k \in DOMAIN all_rows[i] : all_rows[i][k] = <<SP>>
  /\ \E i \in DOMAIN all_rows : \E k \in DOMAIN all_rows[i] : all_rows[i][k] = <<TAB>>
  /\ stats.empty_cells >= 1

\* C6: for every header, column_unique_counts[header] <= total_rows, and it
\* is 0 only if no row has a value for that header.
C6_UniqueCountBounds ==
  stats # None =>
     \A h \in HeaderNames :
        /\ stats.column_unique_counts[h] <= stats.total_rows
        /\ stats.column_unique_counts[h] = 0 =>
             \A i \in DOMAIN all_rows : h \notin DOMAIN all_rows[i]

C6_Witness ==
  /\ stats # None
  /\ stats.total_rows >= 2
  /\ \E h \in HeaderNames : stats.column_unique_counts[h] = 0
  /\ \E h \in HeaderNames : stats.column_unique_counts[h] = stats.total_rows

\* C7: column_unique_counts has exactly the header names as keys, and each
\* entry is the number of distinct raw values the rows hold for that column.
C7_UniqueCounts ==
  stats # None =>
     /\ DOMAIN stats.column_unique_counts = HeaderNames
     /\ \A h \in HeaderNames :
          stats.column_unique_counts[h] =
            Cardinality({all_rows[i][h] :
                           i \in {j \in DOMAIN all_rows : h \in DOMAIN all_rows[j]}})

C7_Witness ==
  /\ stats # None
  /\ \E h \in HeaderNames : \A i \in DOMAIN all_rows : h \notin DOMAIN all_rows[i]
  /\ \E h \in HeaderNames :
       /\ \E i \in DOMAIN all_rows : h \in DOMAIN all_rows[i] /\ all_rows[i][h] = <<>>
       /\ \E i \in DOMAIN all_rows : h \in DOMAIN all_rows[i] /\ all_rows[i][h] = <<SP>>
       /\ stats.column_unique_counts[h] = 2

\* C8: total_rows is the number of data records parsed (the table length)
\* and total_columns the number of header fields, whatever the rows hold.
C8_TotalsMatchInput ==
  stats # None =>
     /\ stats.total_rows = Len(all_rows)
     /\ stats.total_rows = Len(DataRecords)
     /\ stats.total_columns = Len(headers)
     /\ stats.total_columns = Len(HeaderRecord)

C8_Witness ==
  /\ stats # None
  /\ stats.total_rows >= 1
  /\ stats.total_columns >= 2
  /\ \E i \in DOMAIN all_rows : Cardinality(DOMAIN all_rows[i]) < stats.total_columns

\* C9: with an output path that cannot be written the run that reaches the
\* write step returns FileWriteError, which carries the output path and is
\* returned only by the write step: the input has been read to its end, the
\* document rendered from the table, the statistics computed if asked for.
C9_WriteErrorOnlyAtWrite ==
  /\ result.kind = "FileWriteError" =>
       /\ output_path # None
       /\ result.path = output_path.v
       /\ out_writable # "yes"
       /\ json_output # None
       /\ ReadRecord(input_file.content, pos).kind = "End"
       /\ Len(all_rows) = Len(DataRecords)
       /\ \E orders \in IterationOrders(all_rows) :
            json_output.v = to_string_pretty(all_rows, orders)
       /\ show_stats => stats # None
  /\ (pc \in {"done", "exited"} /\ json_output # None /\ output_path # None
        /\ out_writable # "yes") =>
       result.kind = "FileWriteError"

C9_Witness ==
  /\ result.kind = "FileWriteError"
  /\ show_stats
  /\ Len(all_rows) >= 1
  /\ out_file # out_before

\* C10: --stats does not change the outcome: a second run on the same input,
\* output path and stdout ends as the first did (the same Ok, error or
\* panic) with the same headers and table, whichever value the flag had in
\* either run.
C10_StatsFlagNoEffect ==
  (run = 2 /\ pc = "exited") =>
     /\ result = first.result
     /\ headers = first.headers
     /\ all_rows = first.all_rows

====
